---------------------------- MODULE Spec2Model ----------------------------
(***************************************************************************)
(* Model of the context-aware parameter adaptation subsystem of            *)
(* UndergroundWaves (src/ai_sound_engine.py) and of the simulator's noise  *)
(* generation and cruising loop (src/metro_sounds.py).                     *)
(*                                                                         *)
(* Number representation.  The program computes in IEEE doubles; the model *)
(* computes in exact integers of a fixed unit, named at each definition:   *)
(*   temperatures (state)        1/100 degree Celsius                      *)
(*   bearing_wear                1/10000                                   *)
(*   contact_fatigue             1/1000                                    *)
(*   learned values, predictions 1/1000                                    *)
(*   track_wear, vehicle_age,                                              *)
(*   passenger_load              1/100                                     *)
(*   event probabilities         1/1000000                                 *)
(*   context speed (km/h), acceleration (m/s^2), temperature (degree C),   *)
(*   delta_time and timestamps (s) are whole numbers.                      *)
(*   durations of sounds and of journey segments   1/1000 s                *)
(* Divisions round toward minus infinity.  Non-finite doubles (inf, nan)   *)
(* are outside the model.                                                  *)
(***************************************************************************)
EXTENDS Integers, Sequences, FiniteSets, TLC

VARIABLES
    evolution_state,     \* AdaptiveSoundEvolution.evolution_state
    time_elapsed,        \* AdaptiveSoundEvolution.time_elapsed
    learner,             \* an AIParameterLearner instance
    generator,           \* an IntelligentNoiseGenerator instance
    modulator,           \* a ContextAwareFrequencyModulator instance
    observed,            \* history variable: all values learned, per name
    event_history,       \* IntelligentEventPredictor.event_history
    base_probabilities,  \* IntelligentEventPredictor.base_probabilities
    fired,               \* history variable: every event predict_event returned
    clock,               \* history variable: the latest current_time passed
    steps,               \* history variable: calls counted against a bound
    simulator,           \* a MetroSoundSimulator: sample_rate, enable_ai, context
    returned,            \* history variable: every frequency modulate_frequency
                         \* returned, per sound type
    journey,             \* the running continuous_journey_segment call: its
                         \* position, duration and elapsed
    call                 \* the latest call: its operation, arguments, result

vars == <<evolution_state, time_elapsed, learner, generator, modulator,
          observed, event_history,
          base_probabilities, fired, clock, steps, simulator, returned,
          journey, call>>

NoCall == [op |-> "none"]

\* No continuous_journey_segment call has been made.
NoJourney == [pc |-> "idle"]

----------------------------------------------------------------------------
(* numpy helpers as the code uses them *)

Min(a, b) == IF a <= b THEN a ELSE b

Max(a, b) == IF a >= b THEN a ELSE b

Abs(a) == IF a < 0 THEN -a ELSE a

ClipNoUpper(x, lo, hi) == Max(x, lo)

ClipNoBounds(x, lo, hi) == x

\* np.clip(x, lo, hi) is minimum(maximum(x, lo), hi); lo > hi is not checked
\* and yields hi.
Clip(x, lo, hi) == Min(Max(x, lo), hi)

----------------------------------------------------------------------------
(* SoundContext *)

\* The dataclass defaults.
SoundContext ==
    [journey_time |-> 0, speed |-> 0, acceleration |-> 0, temperature |-> 20,
     track_wear |-> 50, vehicle_age |-> 50, passenger_load |-> 50,
     weather_condition |-> "normal"]

----------------------------------------------------------------------------
(* AdaptiveSoundEvolution *)

\* Contexts handed to update: the defaults, the test's braking context, a
\* hard acceleration, a cold day, and values far outside the documented
\* ranges (ambient above both caps, ambient between the caps, negative
\* speed, huge acceleration).
EvoContexts ==
    { SoundContext,
      [SoundContext EXCEPT !.speed = 30, !.acceleration = -2],
      [SoundContext EXCEPT !.speed = 80, !.acceleration = 2, !.temperature = 35],
      [SoundContext EXCEPT !.speed = 50, !.temperature = -10],
      [SoundContext EXCEPT !.temperature = 400],
      [SoundContext EXCEPT !.speed = 300, !.acceleration = -10, !.temperature = 150],
      [SoundContext EXCEPT !.speed = -50, !.acceleration = 20] }

\* delta_time values, in seconds.
EvoDeltas == {-5, 0, 1, 10, 100}

\* Number of update calls explored.
MaxUpdates == 3

EvolutionInit ==
    [brake_temperature |-> 2000, motor_temperature |-> 4000,
     bearing_wear |-> 0, contact_fatigue |-> 0]

BrakeStepAtRest(bt, dt, ctx) ==
    IF ctx.acceleration <= 0
    THEN bt + dt * 1500
    ELSE bt - ((bt - ctx.temperature * 100) * dt) \div 10

\* Brake temperature before the cap (lines 311-316).
BrakeStep(bt, dt, ctx) ==
    IF ctx.acceleration < 0
    THEN bt + dt * 1500
    ELSE bt - ((bt - ctx.temperature * 100) * dt) \div 10

\* Motor temperature before the cap (lines 319-322).
MotorStep(mt, dt, ctx) ==
    LET power_factor == Abs(ctx.acceleration) * ctx.speed
        heated == mt + power_factor * dt * 50
    IN  heated - ((heated - 4000) * dt) \div 20

EvolveStateSignedFatigue(st, dt, ctx) ==
    [brake_temperature |->
        Clip(BrakeStep(st.brake_temperature, dt, ctx),
             ctx.temperature * 100, 30000),
     motor_temperature |->
        Clip(MotorStep(st.motor_temperature, dt, ctx),
             ctx.temperature * 100, 12000),
     bearing_wear |->
        Clip(st.bearing_wear + ctx.speed * dt, 0, 10000),
     contact_fatigue |->
        Clip(st.contact_fatigue + ctx.acceleration * dt, 0, 1000)]

\* The state vector after update(delta_time, context).
EvolveState(st, dt, ctx) ==
    [brake_temperature |->
        Clip(BrakeStep(st.brake_temperature, dt, ctx),
             ctx.temperature * 100, 30000),
     motor_temperature |->
        Clip(MotorStep(st.motor_temperature, dt, ctx),
             ctx.temperature * 100, 12000),
     bearing_wear |->
        Clip(st.bearing_wear + ctx.speed * dt, 0, 10000),
     contact_fatigue |->
        Clip(st.contact_fatigue + Abs(ctx.acceleration) * dt, 0, 1000)]

\* An update a journey makes: time moves forward, the vehicle moves
\* forward, acceleration and ambient temperature are ordinary.
UsualUpdate(dt, ctx) ==
    /\ dt >= 0
    /\ ctx.speed >= 0
    /\ ctx.acceleration \in -3..3
    /\ ctx.temperature \in -10..40

AdvanceTimeOverwrite(t, dt) == dt

\* self.time_elapsed += delta_time (line 308)
AdvanceTime(t, dt) == t + dt

Update(dt, ctx) ==
    /\ steps < MaxUpdates
    /\ steps' = steps + 1
    /\ time_elapsed' = AdvanceTime(time_elapsed, dt)
    /\ evolution_state' = EvolveState(evolution_state, dt, ctx)
    /\ call' = [op |-> "update", dt |-> dt, ctx |-> ctx,
                nonneg |-> (dt >= 0) /\ (call.op = "update" => call.nonneg),
                warm |-> (ctx.temperature >= 20)
                         /\ (call.op = "update" => call.warm),
                usual |-> UsualUpdate(dt, ctx)
                          /\ (call.op = "update" => call.usual),
                total |-> dt + (IF call.op = "update" THEN call.total ELSE 0),
                calls |-> 1 + (IF call.op = "update" THEN call.calls ELSE 0),
                before |-> evolution_state]
    /\ UNCHANGED <<journey, simulator, returned,
                   learner, observed, generator, modulator, event_history,
                   base_probabilities, fired, clock>>

\* get_temperature_modulation() in 1/2240000, the unit in which it is a
\* whole number: 1 + ((bt - 20) / 280 * 0.2 + (mt - 40) / 80 * 0.15) / 2.
GetTemperatureModulation(st) ==
    2240000 + 8 * (st.brake_temperature - 2000)
            + 21 * (st.motor_temperature - 4000)

EvoUpdate == \E dt \in EvoDeltas, ctx \in EvoContexts : Update(dt, ctx)

----------------------------------------------------------------------------
(* AIParameterLearner *)

RECURSIVE SumSeq(_)
\* The sum of the entries of q.  (Split in halves to keep the evaluation
\* shallow.)
SumSeq(q) ==
    IF Len(q) = 0 THEN 0
    ELSE IF Len(q) = 1 THEN q[1]
    ELSE LET half == Len(q) \div 2
         IN  SumSeq(SubSeq(q, 1, half)) + SumSeq(SubSeq(q, half + 1, Len(q)))

RECURSIVE SqrtBetween(_, _, _)
\* The largest r in lo..hi with r * r <= n.
SqrtBetween(n, lo, hi) ==
    IF lo >= hi THEN lo
    ELSE LET mid == (lo + hi + 1) \div 2
         IN  IF mid * mid <= n THEN SqrtBetween(n, mid, hi)
                               ELSE SqrtBetween(n, lo, mid - 1)

\* floor(sqrt(n)) for 0 <= n < 2^30.
ISqrt(n) == SqrtBetween(n, 0, 32767)

\* np.mean(values)
Mean(q) == SumSeq(q) \div Len(q)

\* np.std(values): the population standard deviation.
Std(q) ==
    LET m == Mean(q)
    IN  ISqrt(SumSeq([i \in 1..Len(q) |-> (q[i] - m) * (q[i] - m)]) \div Len(q))

\* AIParameterLearner(memory_size)
NewLearner(memory_size) ==
    [memory_size |-> memory_size,
     parameter_history |-> <<>>,
     variation_model |-> <<>>]

DequeAppendUnbounded(q, v, maxlen) == Append(q, v)

\* deque(maxlen).append(v): past maxlen the oldest entry is dropped.
DequeAppend(q, v, maxlen) ==
    IF maxlen = 0 THEN q
    ELSE IF Len(q) >= maxlen THEN Append(Tail(q), v)
    ELSE Append(q, v)

SmoothSignSlip(old, new) == (900 * old - 100 * new) \div 1000

\* (1 - learning_rate) * old + learning_rate * new, learning_rate = 0.1
Smooth(old, new) == (900 * old + 100 * new) \div 1000

UpdateModelFromTenth(model, values) ==
    IF Len(values) >= 10
    THEN [mean  |-> Smooth(model.mean, Mean(values)),
          std   |-> Smooth(model.std, Std(values)),
          trend |-> (values[Len(values)] - values[1]) \div Len(values)]
    ELSE model

UpdateModelSlopePerInterval(model, values) ==
    IF Len(values) > 10
    THEN [mean  |-> Smooth(model.mean, Mean(values)),
          std   |-> Smooth(model.std, Std(values)),
          trend |-> (values[Len(values)] - values[1]) \div (Len(values) - 1)]
    ELSE model

\* The model after an observation left `values` in the history
\* (lines 55-68).
UpdateModel(model, values) ==
    IF Len(values) > 10
    THEN [mean  |-> Smooth(model.mean, Mean(values)),
          std   |-> Smooth(model.std, Std(values)),
          trend |-> (values[Len(values)] - values[1]) \div Len(values)]
    ELSE model

\* The learner after learn_parameter(param_name, value).
LearnParameter(L, param_name, value) ==
    LET known  == param_name \in DOMAIN L.parameter_history
        hist0  == IF known THEN L.parameter_history[param_name] ELSE <<>>
        model0 == IF known THEN L.variation_model[param_name]
                  ELSE [mean |-> value, std |-> 100, trend |-> 0]
        hist1  == DequeAppend(hist0, value, L.memory_size)
        keys   == DOMAIN L.parameter_history \cup {param_name}
    IN  [memory_size |-> L.memory_size,
         parameter_history |->
            [k \in keys |-> IF k = param_name THEN hist1
                            ELSE L.parameter_history[k]],
         variation_model |->
            [k \in keys |-> IF k = param_name THEN UpdateModel(model0, hist1)
                            ELSE L.variation_model[k]]]

ContextAdjustInclusive(base_value, context) ==
    IF context = <<>> THEN base_value
    ELSE LET ctx == context[1]
             v1  == IF ctx.speed >= 60 THEN (base_value * 11) \div 10
                    ELSE IF ctx.speed <= 20 THEN (base_value * 9) \div 10
                    ELSE base_value
             v2  == (v1 * (1000 + ctx.track_wear * 3)) \div 1000
         IN  (v2 * (1000 + ctx.vehicle_age * 2)) \div 1000

\* The context multipliers of predict_parameter (lines 86-97); context is
\* <<>> for None and <<ctx>> otherwise.
ContextAdjust(base_value, context) ==
    IF context = <<>> THEN base_value
    ELSE LET ctx == context[1]
             v1  == IF ctx.speed > 60 THEN (base_value * 11) \div 10
                    ELSE IF ctx.speed < 20 THEN (base_value * 9) \div 10
                    ELSE base_value
             v2  == (v1 * (1000 + ctx.track_wear * 3)) \div 1000
         IN  (v2 * (1000 + ctx.vehicle_age * 2)) \div 1000

PredictParameterClipFirst(L, param_name, context, z) ==
    IF param_name \notin DOMAIN L.variation_model THEN 1000
    ELSE LET model == L.variation_model[param_name]
             base_value == model.mean + (model.std * z) \div 10 + model.trend
         IN  ContextAdjust(Clip(base_value, 0, 2000), context)

PredictParameterDefaultAdjusted(L, param_name, context, z) ==
    LET model == IF param_name \in DOMAIN L.variation_model
                 THEN L.variation_model[param_name]
                 ELSE [mean |-> 1000, std |-> 0, trend |-> 0]
        base_value == model.mean + (model.std * z) \div 10 + model.trend
    IN  Clip(ContextAdjust(base_value, context), 0, 2000)

\* The value predict_parameter(param_name, context) returns when
\* np.random.normal draws mean + std * z / 10.
PredictParameter(L, param_name, context, z) ==
    IF param_name \notin DOMAIN L.variation_model THEN 1000
    ELSE LET model == L.variation_model[param_name]
             base_value == model.mean + (model.std * z) \div 10 + model.trend
         IN  Clip(ContextAdjust(base_value, context), 0, 2000)

\* Parameter names: two that get learned and one that never is.
LearnNames == {"x", "y"}

PredictNames == LearnNames \cup {"never"}

\* Observations offered per name, in 1/1000.
LearnValues == [x |-> {500, 2500}, y |-> {-3000}]

\* Observations taken per name when learning from a fresh learner:
\* MaxObs for x (past the 10-observation threshold), one for y.
MaxObs == 12

ObsCap(name) == IF name = "x" THEN MaxObs ELSE 1

\* memory_size values the learner is constructed with.
MemorySizes == {2, 11}

\* The standard normal draws, in tenths.
NormalDraws == {-30, 0, 30}

\* Contexts handed to predict_parameter: None, the defaults, the test's
\* context at the upper speed threshold, one at the lower threshold, a fast
\* worn old vehicle, and fields far outside their ranges.
PredictContexts ==
    { <<>>,
      <<SoundContext>>,
      <<[SoundContext EXCEPT !.speed = 60, !.track_wear = 80]>>,
      <<[SoundContext EXCEPT !.speed = 20, !.vehicle_age = 50]>>,
      <<[SoundContext EXCEPT !.speed = 90, !.track_wear = 100, !.vehicle_age = 100]>>,
      <<[SoundContext EXCEPT !.speed = -40, !.track_wear = -500, !.vehicle_age = 900]>> }

\* Every value passed to learn_parameter under `name`, oldest first.
Observations(name) ==
    IF name \in DOMAIN observed THEN observed[name] ELSE <<>>

Observe(obs, name, value) ==
    [k \in DOMAIN obs \cup {name} |->
        IF k = name
        THEN Append(IF name \in DOMAIN obs THEN obs[name] ELSE <<>>, value)
        ELSE obs[k]]

Learn(name, value) ==
    /\ learner' = LearnParameter(learner, name, value)
    /\ observed' = Observe(observed, name, value)
    /\ call' = [op |-> "learn", name |-> name, value |-> value,
                before |-> learner]
    /\ UNCHANGED <<journey, simulator, returned,
                   evolution_state, time_elapsed, generator, modulator,
                   event_history, base_probabilities, fired, clock>>

PredictCallDefaulting(L, param_name, context, z) ==
    [learner |->
        IF param_name \in DOMAIN L.variation_model THEN L
        ELSE [memory_size |-> L.memory_size,
              parameter_history |-> L.parameter_history,
              variation_model |->
                  [k \in DOMAIN L.variation_model \cup {param_name} |->
                      IF k = param_name
                      THEN [mean |-> 1000, std |-> 100, trend |-> 0]
                      ELSE L.variation_model[k]]],
     result |-> PredictParameter(L, param_name, context, z)]

\* predict_parameter(param_name, context) as a call: the learner it leaves
\* (it only reads variation_model, lines 74-77) and the value it returns.
PredictCall(L, param_name, context, z) ==
    [learner |-> L, result |-> PredictParameter(L, param_name, context, z)]

Predict(name, context, z) ==
    LET out == PredictCall(learner, name, context, z)
    IN  /\ learner' = out.learner
        /\ call' = [op |-> "predict", name |-> name, context |-> context,
                    z |-> z, before |-> learner, result |-> out.result,
                    predicted |-> IF call.op = "predict"
                                  THEN call.predicted \cup {call.name}
                                  ELSE {}]
        /\ UNCHANGED <<journey, simulator, returned,
                       evolution_state, time_elapsed, observed, steps,
                       generator, modulator, event_history,
                       base_probabilities, fired, clock>>

\* learn_parameter on a learner that starts fresh.
LearnerLearn ==
    \E name \in LearnNames : \E value \in LearnValues[name] :
        /\ Len(Observations(name)) < ObsCap(name)
        /\ Learn(name, value)
        /\ UNCHANGED steps

LearnerPredict ==
    \E name \in PredictNames, context \in PredictContexts, z \in NormalDraws :
        Predict(name, context, z)

RECURSIVE Replay(_, _)
\* The learner and the observation log after the learn_parameter calls
\* todo = <<name, value>>, ... on st = [learner, observed].
Replay(st, todo) ==
    IF todo = <<>> THEN st
    ELSE Replay([learner  |-> LearnParameter(st.learner, Head(todo)[1], Head(todo)[2]),
                 observed |-> Observe(st.observed, Head(todo)[1], Head(todo)[2])],
                Tail(todo))

\* The test's observations: x = 1.00, 1.01, ..., 1.19.
RampObservations == [i \in 1..20 |-> <<"x", 1000 + (i - 1) * 10>>]

\* Twelve observations of x swinging between 0.5 and 2.5.
SwingObservations ==
    [i \in 1..12 |-> <<"x", IF i % 2 = 1 THEN 500 ELSE 2500>>]

\* Learners predict_parameter is explored on: a fresh one, the test's
\* (memory_size 50, the ramp), and one whose history has wrapped.
TrainedLearners ==
    { Replay([learner |-> NewLearner(2),  observed |-> <<>>], <<>>),
      Replay([learner |-> NewLearner(50), observed |-> <<>>], RampObservations),
      Replay([learner |-> NewLearner(11), observed |-> <<>>], SwingObservations) }

\* learn_parameter calls explored on top of a trained learner.
MaxMoreLearns == 2

\* learn_parameter between predictions.
PredictLearn ==
    \E name \in LearnNames : \E value \in LearnValues[name] :
        /\ steps < MaxMoreLearns
        /\ steps' = steps + 1
        /\ Learn(name, value)

----------------------------------------------------------------------------
(* IntelligentNoiseGenerator *)

\* Python's round(p / d) for d > 0: to the nearest integer, a tie to the
\* even one.
RoundHalfEven(p, d) ==
    LET q == p \div d
        r == p % d
    IN  IF 2 * r < d THEN q
        ELSE IF 2 * r > d THEN q + 1
        ELSE IF q % 2 = 0 THEN q ELSE q + 1

TruncDivRounded(x, d) == RoundHalfEven(x, d)

\* int(x / d) for d > 0: truncation toward zero.
TruncDiv(x, d) == IF x >= 0 THEN x \div d ELSE -((-x) \div d)

\* IntelligentNoiseGenerator(sample_rate)
NewGenerator(sample_rate) ==
    [sample_rate |-> sample_rate, learner |-> NewLearner(100)]

NoiseLearnSpeedOnly(L, base_amplitude, context) ==
    IF context = <<>> THEN L
    ELSE LearnParameter(L, "speed", context[1].speed * 1000)

NoiseLearnAlways(L, base_amplitude, context) ==
    IF context = <<>> THEN LearnParameter(L, "amplitude", base_amplitude)
    ELSE LearnParameter(LearnParameter(L, "amplitude", base_amplitude),
                        "speed", context[1].speed * 1000)

\* The learner after lines 125-127.
NoiseLearn(L, base_amplitude, context) ==
    IF context = <<>> THEN L
    ELSE LearnParameter(LearnParameter(L, "amplitude", base_amplitude),
                        "speed", context[1].speed * 1000)

\* _apply_spectral_intelligence on an array of n samples: the length of the
\* array it returns, or -1 when np.convolve raises ValueError (an empty
\* array).  np.convolve(a, v, mode='same') returns max(len(a), len(v))
\* samples.
SpectralLength(sample_rate, n, context) ==
    IF context = <<>> \/ context[1].weather_condition # "rain" THEN n
    ELSE LET window_size == TruncDiv(sample_rate, 500)
         IN  IF window_size > 1
             THEN (IF n = 0 THEN -1 ELSE Max(n, window_size))
             ELSE n

\* The number of values predict_parameter('amplitude', context) takes from
\* the random stream before the base noise is drawn (lines 77-82): none for
\* a name without a model.
DrawsBeforeNoise(L) ==
    IF "amplitude" \in DOMAIN L.variation_model THEN 1 ELSE 0

\* generate_intelligent_noise(duration, base_amplitude, context) with the
\* draw z inside predict_parameter; duration in 1/1000 s, base_amplitude in
\* 1/1000.  The result is how the call ends and, when it returns, the
\* array's length, the scale of its base noise and the position in the
\* random stream its base noise starts at.
GenerateNoise(G, duration, base_amplitude, context, z) ==
    LET samples   == TruncDiv(G.sample_rate * duration, 1000)
        learned   == NoiseLearn(G.learner, base_amplitude, context)
        factor    == PredictParameter(learned, "amplitude", context, z)
        amplitude == (Clip(factor, 800, 1500) * base_amplitude) \div 1000
        shaped    == SpectralLength(G.sample_rate, samples, context)
        after     == [sample_rate |-> G.sample_rate, learner |-> learned]
    IN  IF samples < 0 \/ amplitude < 0
        THEN [generator |-> after, outcome |-> "ValueError"]
        ELSE IF shaped < 0
        THEN [generator |-> after, outcome |-> "ValueError"]
        ELSE IF context # <<>> /\ context[1].speed > 0 /\ G.sample_rate = 0
        THEN [generator |-> after, outcome |-> "ZeroDivisionError"]
        ELSE [generator |-> after, outcome |-> "returned",
              length |-> shaped, amplitude |-> amplitude,
              draws |-> DrawsBeforeNoise(learned)]

\* sample_rate values generators are constructed with.
SampleRates == {-8, 0, 3, 1000, 44100}

\* duration values, in 1/1000 s.
NoiseDurations == {-1000, 0, 1, 500, 1000}

\* Contexts handed to generate_intelligent_noise: None, the defaults, the
\* test's rainy context, a fast vehicle on worn track.
NoiseContexts ==
    { <<>>,
      <<SoundContext>>,
      <<[SoundContext EXCEPT !.speed = 50, !.track_wear = 70,
                             !.weather_condition = "rain"]>>,
      <<[SoundContext EXCEPT !.speed = 70, !.track_wear = 90]>> }

\* generate_intelligent_noise calls explored.
MaxNoiseCalls == 3

Noise(duration, base_amplitude, context, z) ==
    LET out == GenerateNoise(generator, duration, base_amplitude, context, z)
    IN  /\ steps < MaxNoiseCalls
        /\ steps' = steps + 1
        /\ generator' = out.generator
        /\ call' = [op |-> "noise", duration |-> duration,
                    base_amplitude |-> base_amplitude, context |-> context,
                    z |-> z, before |-> generator, out |-> out,
                    previous |-> IF call.op = "noise" /\ call.context = <<>>
                                 THEN [duration |-> call.duration,
                                       base_amplitude |-> call.base_amplitude,
                                       z |-> call.z, out |-> call.out]
                                 ELSE NoCall]
        /\ UNCHANGED <<journey, simulator, returned,
                   evolution_state, time_elapsed, learner, observed,
                       modulator, event_history, base_probabilities, fired,
                       clock>>

NoiseCall ==
    \E duration \in NoiseDurations, context \in NoiseContexts,
       z \in NormalDraws :
        Noise(duration, 100, context, z)

----------------------------------------------------------------------------
(* MetroSoundSimulator.generate_noise *)

\* MetroSoundSimulator(sample_rate, enable_ai) with the journey context it
\* drew (None when enable_ai is off); its ai_noise_generator is the variable
\* generator.
NewSimulator(sample_rate, enable_ai, context) ==
    [sample_rate |-> sample_rate, enable_ai |-> enable_ai, context |-> context]

\* len(np.convolve(a, v, mode='same')) for len(a) = n and len(v) = m >= 1:
\* max(n, m), or -1 when np.convolve raises ValueError (an empty array).
ConvolveSameLength(n, m) == IF n = 0 THEN -1 ELSE Max(n, m)

\* The averaging filter of generate_noise on an array of n samples
\* (lines 118-121 and 128-130): how it ends and the length it leaves.
\* high_freq is in Hz.
LowPass(sample_rate, n, high_freq) ==
    IF high_freq = 0 THEN [outcome |-> "ZeroDivisionError"]
    ELSE LET window_size ==
                 IF (sample_rate >= 0) = (high_freq > 0)
                 THEN Abs(sample_rate) \div Abs(high_freq)
                 ELSE -(Abs(sample_rate) \div Abs(high_freq))
         IN  IF window_size > 1
             THEN (IF ConvolveSameLength(n, window_size) < 0
                   THEN [outcome |-> "ValueError"]
                   ELSE [outcome |-> "returned",
                         length |-> ConvolveSameLength(n, window_size)])
             ELSE [outcome |-> "returned", length |-> n]

\* generate_noise(duration, amplitude, low_freq, high_freq) on simulator S
\* whose ai_noise_generator is G; duration in 1/1000 s, amplitude in 1/1000.
SimGenerateNoise(S, G, duration, amplitude, high_freq, z) ==
    IF S.enable_ai
    THEN LET ai == GenerateNoise(G, duration, amplitude, S.context, z)
         IN  IF ai.outcome # "returned"
             THEN [generator |-> ai.generator, outcome |-> ai.outcome]
             ELSE [generator |-> ai.generator]
                      @@ LowPass(S.sample_rate, ai.length, high_freq)
    ELSE LET samples == TruncDiv(S.sample_rate * duration, 1000)
         IN  IF samples < 0 \/ amplitude < 0
             THEN [generator |-> G, outcome |-> "ValueError"]
             ELSE [generator |-> G] @@ LowPass(S.sample_rate, samples, high_freq)

\* sample_rate values simulators are constructed with.
SimSampleRates == {1000, 44100}

\* The journey contexts an AI-enabled simulator can draw (lines 58-67):
\* at rest, track_wear in [0.3, 0.7], weather normal, rain or cold.
SimContexts ==
    { <<[SoundContext EXCEPT !.track_wear = 30]>>,
      <<[SoundContext EXCEPT !.track_wear = 70, !.weather_condition = "rain"]>>,
      <<[SoundContext EXCEPT !.temperature = 15, !.weather_condition = "cold"]>> }

\* Simulators as constructed: AI disabled, and AI enabled with each context.
Simulators ==
    { NewSimulator(r, FALSE, <<>>) : r \in SimSampleRates }
        \cup { NewSimulator(r, TRUE, c) : r \in SimSampleRates, c \in SimContexts }

\* duration values, in 1/1000 s: one sample's worth and less at 1000 Hz, the
\* callers' 0.3 s, the test's 2 s.
SimDurations == {0, 1, 300, 2000}

\* high_freq values, in Hz: the default, the callers' 10000, one above the
\* sample rate, zero and a negative one.
HighFreqs == {-100, 0, 200, 10000, 50000}

\* generate_noise calls explored.
MaxSimCalls == 2

SimNoise(duration, amplitude, high_freq, z) ==
    LET out == SimGenerateNoise(simulator, generator, duration, amplitude,
                                high_freq, z)
    IN  /\ steps < MaxSimCalls
        /\ steps' = steps + 1
        /\ generator' = out.generator
        /\ call' = [op |-> "generate_noise", duration |-> duration,
                    amplitude |-> amplitude, high_freq |-> high_freq,
                    out |-> [k \in DOMAIN out \ {"generator"} |-> out[k]]]
        /\ UNCHANGED <<journey, evolution_state, time_elapsed, learner, observed,
                       modulator, event_history, base_probabilities, fired,
                       clock, simulator, returned>>

SimNoiseCall ==
    \E duration \in SimDurations, high_freq \in HighFreqs, z \in NormalDraws :
        SimNoise(duration, 100, high_freq, z)

----------------------------------------------------------------------------
(* ContextAwareFrequencyModulator *)

\* ContextAwareFrequencyModulator()
NewModulator == [learner |-> NewLearner(100), frequency_memory |-> <<>>]

NaturalGrowth == <<53, 68, 89, 125, 192, 353, 1000>>

\* 1.0 / (i ** 1.5) for i = 1..7, in 1/1000.
NaturalDecay == <<1000, 353, 192, 125, 89, 68, 53>>

HarmonicCountFromSeventy(ctx) == IF ctx.vehicle_age >= 70 THEN 7 ELSE 5

\* n_harmonics (lines 260-262)
HarmonicCount(ctx) == IF ctx.vehicle_age > 70 THEN 7 ELSE 5

\* base_amplitude of harmonic i (lines 269-279)
HarmonicBase(i, ctx) ==
    LET decay == NaturalDecay[i]
        worn  == IF ctx.track_wear > 60 /\ i % 2 = 0
                 THEN (decay * 13) \div 10 ELSE decay
    IN  IF i > 3 THEN (worn * (1000 - ctx.passenger_load * 3)) \div 1000
        ELSE worn

HarmonicKeyShared(sound_type, i) == <<sound_type, "harmonic", 0, "amp">>

\* f'{sound_type}_harmonic_{i}_amp'
HarmonicKey(sound_type, i) == <<sound_type, "harmonic", i, "amp">>

RECURSIVE HarmonicsFrom(_, _, _, _, _, _, _)
\* The loop of lines 264-286 from harmonic i on: the learner it leaves and
\* the list of <<frequency, amplitude>> it builds; zs[i] is the draw inside
\* the i-th predict_parameter.
HarmonicsFrom(i, n, L, fundamental, sound_type, ctx, zs) ==
    IF i > n THEN [learner |-> L, harmonics |-> <<>>]
    ELSE LET freq           == fundamental * i
             base_amplitude == HarmonicBase(i, ctx)
             param_name     == HarmonicKey(sound_type, i)
             learned        == LearnParameter(L, param_name, base_amplitude)
             amplitude      ==
                 (PredictParameter(learned, param_name, <<ctx>>, zs[i])
                      * base_amplitude) \div 1000
             rest == HarmonicsFrom(i + 1, n, learned, fundamental,
                                   sound_type, ctx, zs)
         IN  [learner   |-> rest.learner,
              harmonics |-> <<<<freq, Clip(amplitude, 0, 1000)>>>>
                                \o rest.harmonics]

\* get_harmonic_intelligence(fundamental, sound_type, context)
GetHarmonicIntelligence(M, fundamental, sound_type, ctx, zs) ==
    LET run == HarmonicsFrom(1, HarmonicCount(ctx), M.learner, fundamental,
                             sound_type, ctx, zs)
    IN  [modulator |-> [learner |-> run.learner,
                        frequency_memory |-> M.frequency_memory],
         harmonics |-> run.harmonics]

\* Fundamentals, in Hz.
Fundamentals == {0, 110, 440}

SoundTypes == {"motor", "rail"}

\* Contexts handed to get_harmonic_intelligence: the test's, vehicle_age
\* exactly 0.7, just above it, and an old vehicle with out-of-range
\* track_wear and passenger_load.
HarmonicContexts ==
    { [SoundContext EXCEPT !.speed = 50, !.temperature = 25, !.track_wear = 60],
      [SoundContext EXCEPT !.vehicle_age = 70, !.track_wear = 80],
      [SoundContext EXCEPT !.vehicle_age = 71],
      [SoundContext EXCEPT !.vehicle_age = 100, !.track_wear = -300,
                           !.passenger_load = 500] }

\* The draws of one call's predict_parameter calls, in tenths: all low, all
\* at the mean, all high, alternating, and the first harmonic's eight
\* standard deviations low with all the others' eight high.
DrawStreams ==
    { [i \in 1..7 |-> -30], [i \in 1..7 |-> 0], [i \in 1..7 |-> 30],
      [i \in 1..7 |-> IF i % 2 = 1 THEN 30 ELSE -30],
      [i \in 1..7 |-> IF i = 1 THEN -80 ELSE 80] }

\* get_harmonic_intelligence calls explored.
MaxHarmonicCalls == 2

Harmonics(fundamental, sound_type, ctx, zs) ==
    LET out == GetHarmonicIntelligence(modulator, fundamental, sound_type, ctx, zs)
    IN  /\ steps < MaxHarmonicCalls
        /\ steps' = steps + 1
        /\ modulator' = out.modulator
        /\ call' = [op |-> "harmonics", fundamental |-> fundamental,
                    sound_type |-> sound_type, ctx |-> ctx,
                    zs |-> zs, before |-> modulator,
                    result |-> out.harmonics]
        /\ UNCHANGED <<journey, simulator, returned,
                   evolution_state, time_elapsed, learner, observed,
                       generator, event_history, base_probabilities, fired,
                       clock>>

HarmonicsCall ==
    \E fundamental \in Fundamentals, sound_type \in SoundTypes,
       ctx \in HarmonicContexts, zs \in DrawStreams :
        Harmonics(fundamental, sound_type, ctx, zs)

\* f'{sound_type}_freq'
FrequencyKey(sound_type) == <<sound_type, "freq">>

\* The sound types for which 'motor' in sound_type.lower() holds.
MotorTypes == {"motor", "motor_whine"}

\* speed_factor (line 226), in 1/1000.
SpeedFactor(ctx) == Clip((ctx.speed * 1000) \div 60, 300, 1500)

TrimMemoryKeepOldest(q) == IF Len(q) > 50 THEN SubSeq(q, 1, 50) ELSE q

\* A category's frequency memory after lines 242-243.
TrimMemory(q) == IF Len(q) > 50 THEN SubSeq(q, Len(q) - 49, Len(q)) ELSE q

\* modulate_frequency(base_freq, sound_type, context): the modulator it
\* leaves, the frequency it returns and the variation it predicted.
\* base_freq and the result are in 1/1000 Hz; z is the draw inside
\* predict_parameter and w the value of np.random.randn(), in tenths.  The
\* factors of freq_shift are in 1/1000 and applied one after the other.
ModulateFrequency(M, base_freq, sound_type, ctx, z, w) ==
    LET key       == FrequencyKey(sound_type)
        learned   == LearnParameter(M.learner, key, base_freq)
        variation == PredictParameter(learned, key, <<ctx>>, z)
        varied    == (base_freq * variation) \div 1000
        heated    == (varied * (600 + (ctx.temperature - 20))) \div 600
        driven    == IF sound_type \in MotorTypes
                     THEN (heated * SpeedFactor(ctx)) \div 1000
                     ELSE heated
        irregular == IF ctx.track_wear > 50
                     THEN (driven * (1000 + ((ctx.track_wear - 50) * w) \div 10))
                              \div 1000
                     ELSE driven
        modulated_freq ==
                     IF ctx.vehicle_age > 50
                     THEN (irregular * (1000 - (8 * (ctx.vehicle_age - 50)) \div 10))
                              \div 1000
                     ELSE irregular
        memory0   == IF sound_type \in DOMAIN M.frequency_memory
                     THEN M.frequency_memory[sound_type] ELSE <<>>
        types     == DOMAIN M.frequency_memory \cup {sound_type}
    IN  [modulator |->
            [learner |-> learned,
             frequency_memory |->
                [t \in types |->
                    IF t = sound_type
                    THEN TrimMemory(Append(memory0, modulated_freq))
                    ELSE M.frequency_memory[t]]],
         result |-> modulated_freq,
         variation |-> variation]

\* The log of returned frequencies after one more of sound_type.
LogReturned(log, sound_type, freq) ==
    [t \in DOMAIN log \cup {sound_type} |->
        IF t = sound_type
        THEN Append(IF sound_type \in DOMAIN log THEN log[sound_type] ELSE <<>>,
                    freq)
        ELSE log[t]]

\* The test's context (lines 89-94).
ModulatorTestContext ==
    [SoundContext EXCEPT !.speed = 50, !.temperature = 25, !.track_wear = 60]

\* Contexts handed to modulate_frequency, all within the documented
\* ranges: the defaults, the test's, and a cold day at rest on worn track in
\* an old vehicle.
ModulateContexts ==
    { SoundContext,
      ModulatorTestContext,
      [SoundContext EXCEPT !.temperature = -10, !.track_wear = 100,
                           !.vehicle_age = 100] }

\* <<sound_type, base_freq>> of the calls explored, base_freq in 1/1000 Hz:
\* the sweep's start and end frequency under 'motor_whine' (metro_sounds.py
\* lines 203-208, at 2 Hz and 16 Hz so that the squares inside np.std stay
\* below 2^31), and the tests' 440 Hz.
ModulateInputs ==
    { <<"motor_whine", 2000>>, <<"motor_whine", 16000>>,
      <<"test", 440000>>, <<"test", 441000>> }

\* The draws z and w, in tenths.
ModulateDraws == {-30, 30}

\* modulate_frequency calls explored.
MaxModulateCalls == 2

RECURSIVE ReplayModulate(_, _)
\* The modulator and the log of returned frequencies after the calls
\* todo = <<sound_type, base_freq>>, ... under the test's context, every
\* draw at its mean.  (Split in halves, each evaluated before the next, to
\* keep the evaluation shallow.)
ReplayModulate(st, todo) ==
    IF todo = <<>> THEN st
    ELSE IF Len(todo) = 1
    THEN LET out == ModulateFrequency(st.modulator, todo[1][2], todo[1][1],
                                      ModulatorTestContext, 0, 0)
         IN  [modulator |-> out.modulator,
              returned  |-> LogReturned(st.returned, todo[1][1], out.result)]
    ELSE LET half  == Len(todo) \div 2
             first == ReplayModulate(st, SubSeq(todo, 1, half))
         IN  IF first.returned = <<>> THEN first
             ELSE ReplayModulate(first, SubSeq(todo, half + 1, Len(todo)))

\* Sweeps made before the explored calls start: each modulates its start
\* and then its end frequency.
PriorSweeps == 10

SweepCalls ==
    [i \in 1..(2 * PriorSweeps) |->
        <<"motor_whine", IF i % 2 = 1 THEN 2000 ELSE 16000>>]

\* Calls of the test's kind made before the explored calls start, one more
\* than the frequency memory keeps.
PriorTones == 51

ToneCalls == [i \in 1..PriorTones |-> <<"test", 440000 + 10 * i>>]

\* Modulators modulate_frequency is explored on: a new one, one that has
\* served sweeps, one whose memory of 'test' is full.
UsedModulators ==
    { ReplayModulate([modulator |-> NewModulator, returned |-> <<>>], todo) :
        todo \in {<<>>, SweepCalls, ToneCalls} }

Modulate(base_freq, sound_type, ctx, z, w) ==
    LET out == ModulateFrequency(modulator, base_freq, sound_type, ctx, z, w)
    IN  /\ steps < MaxModulateCalls
        /\ steps' = steps + 1
        /\ modulator' = out.modulator
        /\ returned' = LogReturned(returned, sound_type, out.result)
        /\ call' = [op |-> "modulate", base_freq |-> base_freq,
                    sound_type |-> sound_type, ctx |-> ctx,
                    result |-> out.result, variation |-> out.variation]
        /\ UNCHANGED <<journey, evolution_state, time_elapsed, learner, observed,
                       generator, event_history, base_probabilities, fired,
                       clock, simulator>>

ModulateCall ==
    \E input \in ModulateInputs, ctx \in ModulateContexts,
       z \in ModulateDraws, w \in ModulateDraws :
        Modulate(input[2], input[1], ctx, z, w)

----------------------------------------------------------------------------
(* IntelligentEventPredictor *)

BaseProbabilitiesSorted ==
    << <<"brake_squeal", 60000>>, <<"curve", 150000>>, <<"rail_defect", 100000>>,
       <<"rail_switch", 120000>>, <<"wheel_squeal", 80000>> >>

BaseProbabilitiesExtended ==
    << <<"curve", 150000>>, <<"rail_switch", 120000>>, <<"rail_defect", 100000>>,
       <<"wheel_squeal", 80000>>, <<"brake_squeal", 60000>>,
       <<"track_joint", 50000>> >>

\* base_probabilities as constructed (lines 369-375): a dict, which keeps
\* its insertion order, as the sequence of its <<key, value>> items.
BaseProbabilities ==
    << <<"curve", 150000>>, <<"rail_switch", 120000>>, <<"rail_defect", 100000>>,
       <<"wheel_squeal", 80000>>, <<"brake_squeal", 60000>> >>

\* adjusted_probs (lines 387-397): a copy, in the same order.
AdjustedProbs(base, ctx) ==
    [i \in 1..Len(base) |->
        LET e == base[i][1]
            p == base[i][2]
        IN  <<e, IF e = "rail_defect" THEN (p * (100 + ctx.track_wear)) \div 100
                 ELSE IF e = "curve" /\ ctx.speed > 50 THEN (p * 15) \div 10
                 ELSE IF e = "wheel_squeal"
                      THEN (p * (200 + ctx.vehicle_age)) \div 200
                 ELSE p>>]

BaseAfterAdjustAliased(base, ctx) == AdjustedProbs(base, ctx)

\* self.base_probabilities after lines 387-397: adjusted_probs is a copy
\* (.copy(), line 387), so the adjustments do not reach it.
BaseAfterAdjust(base, ctx) == base

\* recent_events (line 400)
RecentEvents(history, current_time) ==
    { history[i][2] : i \in { j \in 1..Len(history) : current_time - history[j][1] < 5 } }

RecordEventKeepOldest(history, current_time, event_type) ==
    LET h == Append(history, <<current_time, event_type>>)
    IN  IF Len(h) > 100 THEN SubSeq(h, 1, 100) ELSE h

\* event_history after a fired event is recorded (lines 408-411).
RecordEvent(history, current_time, event_type) ==
    LET h == Append(history, <<current_time, event_type>>)
    IN  IF Len(h) > 100 THEN SubSeq(h, Len(h) - 99, Len(h)) ELSE h

\* Values random.random() returns, in 1/100000000: the trial at line 407
\* compares the draw with base_prob * 0.01.
RandomDraws == {1000, 50000, 99999999}

\* The probability the trial of an item of adjusted_probs uses
\* (lines 402-405).
TrialProb(item, recent) ==
    IF item[1] \in recent THEN (item[2] * 3) \div 10 ELSE item[2]

RECURSIVE TrialsFrom(_, _, _, _)
\* The ways the loop of lines 402-414 can end from item i of adjusted_probs,
\* one per sequence of draws: the event returned ("None" when every trial
\* failed) and the trials made, each with the probability it used and
\* whether its draw was below it.
TrialsFrom(i, adjusted, recent, trials) ==
    IF i > Len(adjusted) THEN {[result |-> "None", trials |-> trials]}
    ELSE LET event_type == adjusted[i][1]
             base_prob  == TrialProb(adjusted[i], recent)
             made(ok)   == Append(trials, [event |-> event_type,
                                           adjusted |-> adjusted[i][2],
                                           prob |-> base_prob,
                                           success |-> ok])
         IN  (IF \E r \in RandomDraws : r < base_prob
              THEN {[result |-> event_type, trials |-> made(TRUE)]} ELSE {})
             \cup
             (IF \E r \in RandomDraws : ~(r < base_prob)
              THEN TrialsFrom(i + 1, adjusted, recent, made(FALSE)) ELSE {})

\* The outcomes of predict_event(current_time, context).
EventOutcomes(base, history, current_time, ctx) ==
    TrialsFrom(1, AdjustedProbs(base, ctx),
               RecentEvents(history, current_time), <<>>)

\* Contexts handed to predict_event: the defaults, the test's context made
\* fast, and track_wear far below its range (a negative rail_defect
\* probability).
EventContexts ==
    { SoundContext,
      [SoundContext EXCEPT !.speed = 70, !.track_wear = 80, !.vehicle_age = 70],
      [SoundContext EXCEPT !.track_wear = -200] }

\* current_time values, in seconds.
EventTimes == {0, 4, 5}

\* predict_event calls explored.
MaxEventCalls == 2

RECURSIVE ReplayEvents(_, _)
\* event_history after predict_event calls with default context that
\* returned todo = <<current_time, event_type>>, ...; an event the call
\* cannot return is left out.  (Split in halves, each evaluated before the
\* next, to keep the evaluation shallow.)
ReplayEvents(history, todo) ==
    IF todo = <<>> THEN history
    ELSE IF Len(todo) = 1
    THEN (IF \E o \in EventOutcomes(BaseProbabilities, history, todo[1][1],
                                    SoundContext) : o.result = todo[1][2]
          THEN RecordEvent(history, todo[1][1], todo[1][2])
          ELSE history)
    ELSE LET half  == Len(todo) \div 2
             first == ReplayEvents(history, SubSeq(todo, 1, half))
         IN  IF Len(first) = 0 THEN first
             ELSE ReplayEvents(first, SubSeq(todo, half + 1, Len(todo)))

\* Events fired before the explored calls start.
PriorEvents == 100

\* A burst at time 0: one curve, then rail switches.
BurstEvents ==
    [i \in 1..PriorEvents |-> <<0, IF i = 1 THEN "curve" ELSE "rail_switch">>]

PredictEvent(current_time, ctx) ==
    \E out \in EventOutcomes(base_probabilities, event_history, current_time, ctx) :
        /\ steps < MaxEventCalls
        /\ steps' = steps + 1
        /\ event_history' =
               IF out.result = "None" THEN event_history
               ELSE RecordEvent(event_history, current_time, out.result)
        /\ fired' = IF out.result = "None" THEN fired
                    ELSE Append(fired, <<current_time, out.result>>)
        /\ clock' = current_time
        /\ base_probabilities' = BaseAfterAdjust(base_probabilities, ctx)
        /\ call' = [op |-> "predict_event", time |-> current_time, ctx |-> ctx,
                    after_fast |-> call.op = "predict_event" /\ call.ctx.speed > 50,
                    result |-> out.result, trials |-> out.trials,
                    earlier |-> fired, history |-> event_history,
                    monotone |-> (clock <= current_time)
                                 /\ (call.op = "predict_event" => call.monotone)]
        /\ UNCHANGED <<journey, simulator, returned,
                   evolution_state, time_elapsed, learner, observed,
                       generator, modulator>>

EventPredict ==
    \E current_time \in EventTimes, ctx \in EventContexts :
        PredictEvent(current_time, ctx)

----------------------------------------------------------------------------
(* MetroSoundSimulator.continuous_journey_segment *)

\* The length of a + b for numpy arrays of lengths a and b: equal lengths,
\* or one of them 1, broadcast; otherwise ValueError (-1).
Broadcast(a, b) ==
    IF a < 0 \/ b < 0 THEN -1
    ELSE IF a = b THEN a
    ELSE IF a = 1 THEN b
    ELSE IF b = 1 THEN a
    ELSE -1

\* How ambient_rumble(duration) ends (lines 762-815): its three
\* generate_noise calls, the two tones of int(sample_rate * duration)
\* samples, and the sum of the five arrays (line 803).  What the noise calls
\* record in the AI noise generator decides no length and no outcome (the
\* amplitude factor is clipped into [0.8, 1.5]), so each is evaluated on G.
AmbientRumble(S, G, duration, z) ==
    LET rumble       == SimGenerateNoise(S, G, duration, 120, 150, z)
        motor_hum    == TruncDiv(S.sample_rate * duration, 1000)
        inverter     == SimGenerateNoise(S, G, duration, 30, 7000, z)
        rail_contact == SimGenerateNoise(S, G, duration, 60, 2000, z)
    IN  IF rumble.outcome # "returned" THEN rumble.outcome
        ELSE IF inverter.outcome # "returned" THEN inverter.outcome
        ELSE IF rail_contact.outcome # "returned" THEN rail_contact.outcome
        ELSE IF Broadcast(Broadcast(Broadcast(Broadcast(rumble.length,
                    motor_hum), motor_hum), inverter.length),
                    rail_contact.length) < 0
        THEN "ValueError"
        ELSE "returned"

\* elapsed after the event branch of an AI-enabled iteration
\* (lines 1189-1210).
AfterPredictedEvent(elapsed, duration, predicted_event, turn_duration) ==
    IF predicted_event = "rail_switch" /\ elapsed < duration - 1500
    THEN elapsed + 1200
    ELSE IF predicted_event = "rail_defect" /\ elapsed < duration - 1000
    THEN elapsed + 800
    ELSE IF /\ predicted_event = "curve"
            /\ elapsed < duration - 3000
            /\ duration - elapsed >= turn_duration
    THEN elapsed + turn_duration
    ELSE elapsed

\* elapsed after the three random events of an iteration without AI
\* (lines 1214-1235); switch, defect and curve tell whether the draw of
\* random.random() was below 0.15, 0.12 and 0.25.
AfterRandomEvents(elapsed, duration, switch, defect, curve, turn_duration) ==
    LET e1 == IF elapsed < duration - 1500 /\ switch
              THEN elapsed + 1200 ELSE elapsed
        e2 == IF e1 < duration - 1000 /\ defect THEN e1 + 800 ELSE e1
    IN  IF e2 < duration - 3000 /\ curve /\ duration - e2 >= turn_duration
        THEN e2 + turn_duration
        ELSE e2

\* Simulators the journey is run on: 44100 Hz, without AI and with it.
JourneySimulators == {S \in Simulators : S.sample_rate = 44100}

\* duration arguments, in 1/1000 s: negative, zero, shorter than the
\* rumble's filter window, one rumble, a rumble and a curve that leaves
\* 3 ms, a rumble and a curve, several rumbles.
JourneyDurations == {-5000, 0, 5, 12000, 13003, 14000, 25000}

\* Values of random.uniform(10.0, 18.0), in 1/1000 s.
RumbleDraws == {10000, 14000, 17999}

\* Values of random.uniform(2.5, 4.0), in 1/1000 s.
TurnDraws == {2500, 3000, 4000}

\* continuous_journey_segment calls explored.
MaxJourneys == 1

\* continuous_journey_segment(duration) up to the first test of the loop
\* (lines 1171-1177).
JourneyBegin(duration) ==
    /\ journey.pc # "loop"
    /\ steps < MaxJourneys
    /\ steps' = steps + 1
    /\ simulator' =
           IF simulator.enable_ai /\ simulator.context # <<>>
           THEN [simulator EXCEPT !.context =
                    <<[simulator.context[1] EXCEPT !.acceleration = 0,
                                                   !.speed = 50]>>]
           ELSE simulator
    /\ journey' = [pc |-> IF 0 < duration THEN "loop" ELSE "returned",
                   duration |-> duration, elapsed |-> 0, previous |-> 0,
                   rumble |-> 0, iterations |-> 0]
    /\ call' = [op |-> "continuous_journey_segment", duration |-> duration]
    /\ UNCHANGED <<evolution_state, time_elapsed, learner, observed,
                   generator, modulator, event_history, base_probabilities,
                   fired, clock, returned>>

\* One iteration of the loop (lines 1177-1235) and the test that follows it.
\* The event sounds last 0.8 s or more and return; the sounds' content and
\* what they record in the AI noise generator are not followed.
JourneyIteration ==
    /\ journey.pc = "loop"
    /\ \E u \in RumbleDraws, z \in NormalDraws, turn_duration \in TurnDraws :
         LET rumble_duration == Min(u, journey.duration - journey.elapsed)
             ended   == AmbientRumble(simulator, generator, rumble_duration, z)
             elapsed == journey.elapsed + rumble_duration
             After(e) ==
                 [pc |-> IF e < journey.duration THEN "loop" ELSE "returned",
                  duration |-> journey.duration, elapsed |-> e,
                  previous |-> journey.elapsed, rumble |-> rumble_duration,
                  iterations |-> journey.iterations + 1]
         IN  IF ended # "returned"
             THEN /\ journey' = [journey EXCEPT !.pc = ended,
                                                !.rumble = rumble_duration,
                                                !.iterations = @ + 1]
                  /\ UNCHANGED <<event_history, base_probabilities, fired, clock>>
             ELSE IF simulator.enable_ai /\ simulator.context # <<>>
             THEN LET ctx == simulator.context[1]
                  IN  \E out \in EventOutcomes(base_probabilities, event_history,
                                               ctx.journey_time, ctx) :
                        /\ event_history' =
                               IF out.result = "None" THEN event_history
                               ELSE RecordEvent(event_history, ctx.journey_time,
                                                out.result)
                        /\ fired' = IF out.result = "None" THEN fired
                                    ELSE Append(fired, <<ctx.journey_time,
                                                         out.result>>)
                        /\ clock' = ctx.journey_time
                        /\ base_probabilities' =
                               BaseAfterAdjust(base_probabilities, ctx)
                        /\ journey' = After(AfterPredictedEvent(elapsed,
                                          journey.duration, out.result,
                                          turn_duration))
             ELSE /\ \E switch \in BOOLEAN, defect \in BOOLEAN, curve \in BOOLEAN :
                        journey' = After(AfterRandomEvents(elapsed,
                                       journey.duration, switch, defect, curve,
                                       turn_duration))
                  /\ UNCHANGED <<event_history, base_probabilities, fired, clock>>
    /\ UNCHANGED <<evolution_state, time_elapsed, learner, observed, generator,
                   modulator, steps, simulator, returned, call>>

JourneyCall == \E duration \in JourneyDurations : JourneyBegin(duration)

----------------------------------------------------------------------------
(* Specifications, one per component *)

\* Each component as constructed, and the history variables at rest.
FreshEvolution == evolution_state = EvolutionInit /\ time_elapsed = 0

FreshLearner == learner = NewLearner(100) /\ observed = <<>>

FreshGenerator == generator = NewGenerator(44100)

FreshModulator == modulator = NewModulator /\ returned = <<>>

FreshSimulator == simulator = NewSimulator(44100, FALSE, <<>>)

FreshPredictor ==
    /\ event_history = <<>>
    /\ base_probabilities = BaseProbabilities
    /\ fired = <<>>
    /\ clock = 0

NoCallYet == steps = 0 /\ call = NoCall /\ journey = NoJourney

\* AdaptiveSoundEvolution.update from construction.
InitEvolution ==
    /\ FreshEvolution /\ FreshLearner /\ FreshGenerator /\ FreshModulator
    /\ FreshPredictor /\ FreshSimulator /\ NoCallYet

NextEvolution == EvoUpdate

SpecEvolution == InitEvolution /\ [][NextEvolution]_vars

\* learn_parameter alone, from construction.
InitLearner ==
    /\ learner \in {NewLearner(m) : m \in MemorySizes}
    /\ observed = <<>>
    /\ FreshEvolution /\ FreshGenerator /\ FreshModulator
    /\ FreshPredictor /\ FreshSimulator /\ NoCallYet

NextLearner == LearnerLearn

SpecLearner == InitLearner /\ [][NextLearner]_vars

\* predict_parameter interleaved with learn_parameter.
InitPredict ==
    /\ \E st \in TrainedLearners : learner = st.learner /\ observed = st.observed
    /\ FreshEvolution /\ FreshGenerator /\ FreshModulator
    /\ FreshPredictor /\ FreshSimulator /\ NoCallYet

NextPredict == PredictLearn \/ LearnerPredict

SpecPredict == InitPredict /\ [][NextPredict]_vars

\* generate_intelligent_noise from construction.
InitNoise ==
    /\ generator \in {NewGenerator(r) : r \in SampleRates}
    /\ FreshEvolution /\ FreshLearner /\ FreshModulator
    /\ FreshPredictor /\ FreshSimulator /\ NoCallYet

NextNoise == NoiseCall

SpecNoise == InitNoise /\ [][NextNoise]_vars

\* MetroSoundSimulator.generate_noise from construction.  (With enable_ai
\* off the simulator holds no generator and never reads the variable.)
InitSimulator ==
    /\ simulator \in Simulators
    /\ generator = NewGenerator(simulator.sample_rate)
    /\ FreshEvolution /\ FreshLearner /\ FreshModulator
    /\ FreshPredictor /\ NoCallYet

NextSimulator == SimNoiseCall

SpecSimulator == InitSimulator /\ [][NextSimulator]_vars

\* modulate_frequency on a new modulator and on used ones.
InitModulate ==
    /\ \E st \in UsedModulators :
            modulator = st.modulator /\ returned = st.returned
    /\ FreshEvolution /\ FreshLearner /\ FreshGenerator
    /\ FreshPredictor /\ FreshSimulator /\ NoCallYet

NextModulate == ModulateCall

SpecModulate == InitModulate /\ [][NextModulate]_vars

\* get_harmonic_intelligence from construction.
InitHarmonics ==
    /\ FreshEvolution /\ FreshLearner /\ FreshGenerator /\ FreshModulator
    /\ FreshPredictor /\ FreshSimulator /\ NoCallYet

NextHarmonics == HarmonicsCall

SpecHarmonics == InitHarmonics /\ [][NextHarmonics]_vars

\* predict_event, on a fresh predictor and on one that has just fired a
\* burst of events.
InitEvents ==
    /\ \E prior \in {<<>>, BurstEvents} :
            /\ event_history = ReplayEvents(<<>>, prior)
            /\ fired = prior
    /\ base_probabilities = BaseProbabilities
    /\ clock = 0
    /\ FreshEvolution /\ FreshLearner /\ FreshGenerator /\ FreshModulator
    /\ FreshSimulator /\ NoCallYet

NextEvents == EventPredict

SpecEvents == InitEvents /\ [][NextEvents]_vars

\* continuous_journey_segment on a simulator as constructed.
InitJourney ==
    /\ simulator \in JourneySimulators
    /\ generator = NewGenerator(simulator.sample_rate)
    /\ FreshEvolution /\ FreshLearner /\ FreshModulator
    /\ FreshPredictor /\ NoCallYet

NextJourney == JourneyCall \/ JourneyIteration

SpecJourney == InitJourney /\ [][NextJourney]_vars

----------------------------------------------------------------------------
(* Claims *)

\* The last n entries of q (all of q when it has fewer).
LastN(q, n) ==
    IF Len(q) <= n THEN q ELSE SubSeq(q, Len(q) - n + 1, Len(q))

\* C1 as stated: after update calls with delta_time >= 0, brake_temperature
\* is in [context.temperature, 300] and motor_temperature in
\* [context.temperature, 120] for the context of the latest call.
C1_AsClaimed ==
    (call.op = "update" /\ call.nonneg) =>
        /\ call.ctx.temperature * 100 <= evolution_state.brake_temperature
        /\ evolution_state.brake_temperature <= 30000
        /\ call.ctx.temperature * 100 <= evolution_state.motor_temperature
        /\ evolution_state.motor_temperature <= 12000

\* C1 amended: after update calls with delta_time >= 0, brake_temperature is
\* in [min(context.temperature, 300), 300] and motor_temperature in
\* [min(context.temperature, 120), 120]: an ambient temperature above a cap
\* leaves the value at the cap, below the ambient temperature.
C1_TemperatureBounds ==
    (call.op = "update" /\ call.nonneg) =>
        /\ Min(call.ctx.temperature * 100, 30000) <= evolution_state.brake_temperature
        /\ evolution_state.brake_temperature <= 30000
        /\ Min(call.ctx.temperature * 100, 12000) <= evolution_state.motor_temperature
        /\ evolution_state.motor_temperature <= 12000

\* C1 witness: an update with ambient 150 degrees while braking hard at
\* speed: the brakes are between ambient and their cap, the motor is at
\* its cap.
C1_Witness ==
    /\ call.op = "update" /\ call.nonneg /\ call.dt > 0
    /\ call.ctx.temperature = 150
    /\ evolution_state.brake_temperature > 15000
    /\ evolution_state.motor_temperature = 12000

\* C2: after any update calls, whatever the sign and size of delta_time,
\* speed and acceleration, bearing_wear and contact_fatigue are in [0, 1].
C2_WearBounds ==
    call.op = "update" =>
        /\ 0 <= evolution_state.bearing_wear
        /\ evolution_state.bearing_wear <= 10000
        /\ 0 <= evolution_state.contact_fatigue
        /\ evolution_state.contact_fatigue <= 1000

\* C2 witness: an update whose increments leave both ranges (negative
\* speed pulls bearing_wear below 0, a large acceleration pushes
\* contact_fatigue above 1) and is capped at 0 and 1.
C2_Witness ==
    /\ call.op = "update"
    /\ call.before.bearing_wear + call.ctx.speed * call.dt < 0
    /\ call.before.contact_fatigue + Abs(call.ctx.acceleration) * call.dt > 1000
    /\ evolution_state.bearing_wear = 0
    /\ evolution_state.contact_fatigue = 1000

\* C3: every value predict_parameter returns is in [0.0, 2.0].
C3_PredictInRange ==
    call.op = "predict" => (0 <= call.result /\ call.result <= 2000)

\* C3 witness: a prediction of a name learned past the 10-observation
\* threshold, under a context with negative track_wear, is capped at 0.
C3_Witness ==
    /\ call.op = "predict"
    /\ Len(Observations(call.name)) > 10
    /\ call.context # <<>>
    /\ call.context[1].track_wear < 0
    /\ call.result = 0

\* C4: predict_parameter of a name never passed to learn_parameter returns
\* exactly 1.0.
C4_UnknownDefault ==
    (call.op = "predict" /\ Observations(call.name) = <<>>) =>
        call.result = 1000

\* C4 witness: the default is returned under an out-of-range context while
\* another name has been learned.
C4_Witness ==
    /\ call.op = "predict"
    /\ Observations(call.name) = <<>>
    /\ Len(Observations("x")) > 10
    /\ call.context # <<>>
    /\ call.context[1].vehicle_age > 100
    /\ call.result = 1000

\* C5 as stated: a non-positive duration or sample_rate makes
\* generate_intelligent_noise fail with InvalidParameter, without returning
\* an array and without touching the learner.
C5_AsClaimed ==
    (call.op = "noise" /\ (call.duration <= 0 \/ generator.sample_rate <= 0)) =>
        /\ call.out.outcome = "InvalidParameter"
        /\ generator.learner = call.before.learner

\* The test's valid_events.
ValidEvents ==
    {"curve", "rail_switch", "rail_defect", "wheel_squeal", "brake_squeal"}

\* C6 as stated: over calls with non-decreasing current_time, every trial of
\* an event type that was returned less than 5 seconds before current_time
\* uses the suppressed probability, adjusted x 0.3.
C6_AsClaimed ==
    (call.op = "predict_event" /\ call.monotone) =>
        \A i \in 1..Len(call.trials) :
            (\E j \in 1..Len(call.earlier) :
                /\ call.earlier[j][2] = call.trials[i].event
                /\ call.time - call.earlier[j][1] < 5)
            => call.trials[i].prob = (call.trials[i].adjusted * 3) \div 10

\* C7: every value predict_event returns is None or one of the five event
\* strings.
C7_ValidEvent ==
    call.op = "predict_event" => call.result \in ValidEvents \cup {"None"}

\* C7 witness: a call under the out-of-range context went through the
\* whole iteration order and returned the last type.
C7_Witness ==
    /\ call.op = "predict_event"
    /\ call.ctx.track_wear < 0
    /\ Len(call.trials) = 5
    /\ call.result = "brake_squeal"

\* C8: each name's history is never longer than memory_size and holds the
\* last memory_size observations of that name in arrival order.
C8_HistoryBounded ==
    \A name \in DOMAIN learner.parameter_history :
        /\ Len(learner.parameter_history[name]) <= learner.memory_size
        /\ learner.parameter_history[name] =
               LastN(Observations(name), learner.memory_size)

\* C8 witness: a 12th observation reached a learner of memory_size 11 and
\* the oldest one is gone.
C8_Witness ==
    /\ learner.memory_size = 11
    /\ Len(Observations("x")) = 12
    /\ Len(learner.parameter_history["x"]) = 11
    /\ Observations("x")[1] # Observations("x")[2]
    /\ learner.parameter_history["x"][1] = Observations("x")[2]

\* C9: the std of every stored model is >= 0.
C9_StdNonNegative ==
    \A name \in DOMAIN learner.variation_model :
        learner.variation_model[name].std >= 0

\* C9 witness: a model recomputed past the threshold from differing
\* observations, its std above the initial 0.1.
C9_Witness ==
    /\ Len(Observations("x")) > 10
    /\ learner.variation_model["x"].std > 100

\* C10: get_harmonic_intelligence returns 7 entries when vehicle_age > 0.7
\* and 5 otherwise, and the i-th entry's frequency is fundamental x i.
C10_HarmonicSeries ==
    call.op = "harmonics" =>
        /\ Len(call.result) = IF call.ctx.vehicle_age > 70 THEN 7 ELSE 5
        /\ \A i \in 1..Len(call.result) :
               call.result[i][1] = call.fundamental * i

\* C10 witness: a call with vehicle_age exactly 0.7 returned 5 entries, the
\* fifth at 5 x 440 Hz.
C10_Witness ==
    /\ call.op = "harmonics"
    /\ call.ctx.vehicle_age = 70
    /\ call.fundamental = 440
    /\ Len(call.result) = 5
    /\ call.result[5][1] = 2200

\* C11 as stated: for positive duration and sample_rate, the array
\* generate_intelligent_noise returns has round(sample_rate x duration)
\* samples.
C11_AsClaimed ==
    (/\ call.op = "noise"
     /\ call.duration > 0
     /\ generator.sample_rate > 0
     /\ call.out.outcome = "returned")
    => call.out.length = RoundHalfEven(generator.sample_rate * call.duration, 1000)

\* C11 amended: for positive duration and sample_rate, the array
\* generate_intelligent_noise returns has int(sample_rate x duration)
\* samples, the product truncated and not rounded; under weather_condition
\* rain with a window int(sample_rate / 500) > 1 it has the larger of that
\* and the window.
C11_NoiseLength ==
    (/\ call.op = "noise"
     /\ call.duration > 0
     /\ generator.sample_rate > 0
     /\ call.out.outcome = "returned")
    => LET samples == (generator.sample_rate * call.duration) \div 1000
           window  == generator.sample_rate \div 500
           rain    == /\ call.context # <<>>
                      /\ call.context[1].weather_condition = "rain"
       IN  call.out.length =
               IF rain /\ window > 1 THEN Max(samples, window) ELSE samples

\* C11 witness: sample_rate 3 and duration 0.5, a product of 1.5, returned
\* one sample.
C11_Witness ==
    /\ call.op = "noise"
    /\ generator.sample_rate = 3
    /\ call.duration = 500
    /\ call.out.outcome = "returned"
    /\ call.out.length = 1

\* C12 as stated: for positive duration and any high_freq, in AI-enabled and
\* AI-disabled mode, the array MetroSoundSimulator.generate_noise returns has
\* int(sample_rate x duration) samples.
C12_AsClaimed ==
    (/\ call.op = "generate_noise"
     /\ call.duration > 0
     /\ call.out.outcome = "returned")
    => call.out.length = TruncDiv(simulator.sample_rate * call.duration, 1000)

\* C13 as stated: a run of noise(1.0, 0.1) with no context returns the array
\* a newly constructed generator returns for the same arguments and random
\* stream, whatever calls the generator served before.
C13_AsClaimed ==
    (/\ call.op = "noise"
     /\ call.context = <<>>
     /\ call.duration = 1000
     /\ call.base_amplitude = 100)
    => LET fresh == GenerateNoise(NewGenerator(generator.sample_rate),
                                 call.duration, call.base_amplitude, <<>>, call.z)
       IN  [k \in DOMAIN call.out \ {"generator"} |-> call.out[k]]
               = [k \in DOMAIN fresh \ {"generator"} |-> fresh[k]]

\* C13 amended: a run of noise(1.0, 0.1) with no context leaves the generator
\* as it was, and two such runs in a row on one generator, fed the same
\* random stream, return identical arrays.
C13_SameGenerator ==
    (/\ call.op = "noise"
     /\ call.context = <<>>
     /\ call.duration = 1000
     /\ call.base_amplitude = 100)
    => /\ generator = call.before
       /\ (/\ call.previous # NoCall
           /\ call.previous.duration = 1000
           /\ call.previous.base_amplitude = 100
           /\ call.previous.z = call.z)
          => call.out = call.previous.out

\* C13 witness: after a call with a context taught the generator an
\* amplitude, two runs of noise(1.0, 0.1) in a row with the same stream each
\* took one value from the stream before the noise and returned the same
\* array, quieter than a new generator's.
C13_Witness ==
    /\ call.op = "noise"
    /\ call.context = <<>>
    /\ call.duration = 1000
    /\ call.base_amplitude = 100
    /\ call.previous # NoCall
    /\ call.previous.duration = 1000
    /\ call.previous.z = call.z
    /\ call.out.outcome = "returned"
    /\ call.out.draws = 1
    /\ call.out.amplitude < 100
    /\ call.out = call.previous.out

\* C14 as stated: an update with delta_time > 0 leaves brake_temperature at
\* its earlier value plus delta_time x 15.0, capped at 300, when
\* acceleration < 0, and otherwise at its earlier value less
\* delta_time x 0.1 x (brake_temperature - ambient).  (Stated for journeys
\* of ordinary updates only.)
C14_AsClaimed ==
    (call.op = "update" /\ call.dt > 0 /\ call.usual) =>
        evolution_state.brake_temperature =
            IF call.ctx.acceleration < 0
            THEN Min(call.before.brake_temperature + call.dt * 1500, 30000)
            ELSE call.before.brake_temperature
                 - ((call.before.brake_temperature
                        - call.ctx.temperature * 100) * call.dt) \div 10

\* C14 amended: the value of either branch is then clipped into
\* [ambient, 300] (300 when ambient is above 300); from the default state
\* with ambient 20 a braking update leaves brake_temperature above 20 and at
\* most 300.
C14_BrakeStep ==
    (call.op = "update" /\ call.dt > 0) =>
        /\ evolution_state.brake_temperature =
               Min(Max(IF call.ctx.acceleration < 0
                       THEN call.before.brake_temperature + call.dt * 1500
                       ELSE call.before.brake_temperature
                            - ((call.before.brake_temperature
                                   - call.ctx.temperature * 100) * call.dt) \div 10,
                       call.ctx.temperature * 100),
                   30000)
        /\ (/\ call.before = EvolutionInit
            /\ call.ctx.acceleration < 0
            /\ call.ctx.temperature = 20)
           => /\ evolution_state.brake_temperature > 2000
              /\ evolution_state.brake_temperature <= 30000

\* C14 witness: update(10, braking context at ambient 20) on the default
\* state left the brakes at 20 + 150 degrees.
C14_Witness ==
    /\ call.op = "update"
    /\ call.dt = 10
    /\ call.before = EvolutionInit
    /\ call.ctx.acceleration < 0
    /\ call.ctx.temperature = 20
    /\ evolution_state.brake_temperature = 17000

\* C15 as stated: after update calls with delta_time >= 0 and contexts of
\* temperature >= 20, get_temperature_modulation returns at least 1.0.
\* (Stated for journeys of ordinary updates only.)
C15_AsClaimed ==
    (call.op = "update" /\ call.nonneg /\ call.warm /\ call.usual) =>
        GetTemperatureModulation(evolution_state) >= 2240000

\* C16: an update with delta_time >= 0 and speed >= 0 leaves bearing_wear
\* and contact_fatigue at least at their earlier values.
C16_WearMonotone ==
    (call.op = "update" /\ call.dt >= 0 /\ call.ctx.speed >= 0) =>
        /\ evolution_state.bearing_wear >= call.before.bearing_wear
        /\ evolution_state.contact_fatigue >= call.before.contact_fatigue

\* C16 witness: a braking update on a state already worn pushed bearing_wear
\* to its cap of 1 and raised contact_fatigue.
C16_Witness ==
    /\ call.op = "update"
    /\ call.dt > 0
    /\ call.ctx.speed > 0
    /\ call.ctx.acceleration < 0
    /\ call.before.bearing_wear > 0
    /\ call.before.bearing_wear < 10000
    /\ call.before.contact_fatigue > 0
    /\ evolution_state.bearing_wear = 10000
    /\ evolution_state.contact_fatigue > call.before.contact_fatigue

\* C17: once a name's history holds more than 10 entries, the trend of its
\* model is (latest observation - oldest observation still in the history)
\* / history length, the length being memory_size once the buffer is full;
\* after the 20 observations 1.00, 1.01, ..., 1.19 it is 0.19 / 20.
C17_Trend ==
    /\ \A name \in DOMAIN learner.variation_model :
           LET obs  == Observations(name)
               kept == Min(Len(obs), learner.memory_size)
           IN  kept > 10 =>
                   learner.variation_model[name].trend =
                       (obs[Len(obs)] - obs[Len(obs) - kept + 1]) \div kept
    /\ Observations("x") = [i \in 1..20 |-> 1000 + (i - 1) * 10]
           => learner.variation_model["x"].trend = 190 \div 20

\* C17 witness: a 13th observation reached a learner of memory_size 11; the
\* trend spans the 3rd to the 13th observation, divided by 11.
C17_Witness ==
    /\ call.op = "learn"
    /\ call.name = "x"
    /\ learner.memory_size = 11
    /\ Len(Observations("x")) = 13
    /\ Observations("x")[13] # Observations("x")[3]
    /\ Observations("x")[13] = Observations("x")[2]
    /\ learner.variation_model["x"].trend # 0
    /\ learner.variation_model["x"].trend * 11 <=
           Observations("x")[13] - Observations("x")[3]

\* C19: the event history never holds more than 100 records, and they are
\* the latest events predict_event returned, in the order it returned them.
C19_EventHistory ==
    /\ Len(event_history) <= 100
    /\ event_history = LastN(fired, 100)

\* C19 witness: an event fired on a full history; it is the last record and
\* the oldest record is gone.
C19_Witness ==
    /\ call.op = "predict_event"
    /\ call.result # "None"
    /\ Len(call.earlier) >= 100
    /\ Len(event_history) = 100
    /\ event_history[100] = <<call.time, call.result>>
    /\ event_history[1] = fired[Len(fired) - 99]
    /\ event_history[1] # fired[1]

\* C18: each category's frequency memory holds at most 50 values, they are
\* the latest frequencies modulate_frequency returned for the category in
\* call order, and a returned frequency is the last value of its
\* category's memory.
C18_FrequencyMemory ==
    /\ DOMAIN modulator.frequency_memory = DOMAIN returned
    /\ \A t \in DOMAIN modulator.frequency_memory :
           /\ Len(modulator.frequency_memory[t]) <= 50
           /\ modulator.frequency_memory[t] = LastN(returned[t], 50)
    /\ call.op = "modulate" =>
           LET memory == modulator.frequency_memory[call.sound_type]
           IN  memory[Len(memory)] = call.result

\* C18 witness: a call on a category whose memory was full; the oldest
\* frequency is gone and the second oldest is now first.
C18_Witness ==
    /\ call.op = "modulate"
    /\ Len(returned[call.sound_type]) > 51
    /\ Len(modulator.frequency_memory[call.sound_type]) = 50
    /\ modulator.frequency_memory[call.sound_type][1]
           = returned[call.sound_type][Len(returned[call.sound_type]) - 49]
    /\ modulator.frequency_memory[call.sound_type][1]
           # returned[call.sound_type][1]
    /\ modulator.frequency_memory[call.sound_type][50] = call.result

\* C20 as stated: modulate_frequency returns a frequency > 0 for every
\* base_freq > 0 and every context within the documented ranges.
C20_AsClaimed ==
    (call.op = "modulate" /\ call.base_freq > 0) => call.result > 0

C22_TimeElapsed ==
    time_elapsed = IF call.op = "update" THEN call.total ELSE 0

\* Three updates with non-zero delta_time, the last one negative.
C22_Witness ==
    /\ call.op = "update"
    /\ call.calls = 3
    /\ call.dt < 0
    /\ call.total > 0
    /\ call.total # call.dt
    /\ time_elapsed = call.total

\* C23: one predict_event call tries the event types in the order curve,
\* rail_switch, rail_defect, wheel_squeal, brake_squeal; it returns the
\* first type whose trial succeeds, appends the one record
\* (current_time, that type) to the history (kept to its last 100) and tries
\* no later type; when every trial fails it returns None and leaves the
\* history as it was.
C23_FirstSuccess ==
    call.op = "predict_event" =>
        LET order == <<"curve", "rail_switch", "rail_defect",
                       "wheel_squeal", "brake_squeal">>
            n     == Len(call.trials)
        IN  /\ n \in 1..5
            /\ \A i \in 1..n : call.trials[i].event = order[i]
            /\ \A i \in 1..(n - 1) : ~call.trials[i].success
            /\ IF call.trials[n].success
               THEN /\ call.result = order[n]
                    /\ event_history =
                           LastN(Append(call.history,
                                        <<call.time, order[n]>>), 100)
               ELSE /\ n = 5
                    /\ call.result = "None"
                    /\ event_history = call.history

\* A call whose third trial, rail_defect, was the first to succeed, on a
\* history that already held a record.
C23_Witness ==
    /\ call.op = "predict_event"
    /\ call.result = "rail_defect"
    /\ Len(call.trials) = 3
    /\ ~call.trials[1].success /\ ~call.trials[2].success
    /\ call.trials[3].success
    /\ Len(call.history) > 0
    /\ Len(event_history) = Len(call.history) + 1

\* C24 as stated: the first learn_parameter call for a name sets its model
\* to mean = that value, std = 0.1, trend = 0; the model stays exactly that
\* through the first 10 observations of the name and is recomputed on the
\* 11th and on every later one.
C24_AsClaimed ==
    call.op = "learn" =>
        LET obs     == Observations(call.name)
            n       == Len(obs)
            values  == learner.parameter_history[call.name]
            model   == learner.variation_model[call.name]
            initial == [mean |-> obs[1], std |-> 100, trend |-> 0]
            prior   == IF n = 1 THEN initial
                       ELSE call.before.variation_model[call.name]
        IN  /\ (n <= 10 => model = initial)
            /\ (n >= 11 =>
                   model = [mean  |-> Smooth(prior.mean, Mean(values)),
                            std   |-> Smooth(prior.std, Std(values)),
                            trend |-> (values[Len(values)] - values[1])
                                          \div Len(values)])

\* C24, amended: the first learn_parameter call for a name sets its model
\* to mean = that value, std = 0.1, trend = 0.  With memory_size > 10 the
\* model stays exactly that through the first 10 observations and is
\* recomputed on the 11th and on every later one; with memory_size <= 10
\* the history never holds more than 10 values and the model is never
\* recomputed.
C24_ModelSchedule ==
    call.op = "learn" =>
        LET obs     == Observations(call.name)
            n       == Len(obs)
            values  == learner.parameter_history[call.name]
            model   == learner.variation_model[call.name]
            initial == [mean |-> obs[1], std |-> 100, trend |-> 0]
            prior   == IF n = 1 THEN initial
                       ELSE call.before.variation_model[call.name]
        IN  /\ (n = 1 => model = initial)
            /\ IF learner.memory_size > 10
               THEN /\ (n <= 10 => model = initial)
                    /\ (n >= 11 =>
                           model = [mean  |-> Smooth(prior.mean, Mean(values)),
                                    std   |-> Smooth(prior.std, Std(values)),
                                    trend |-> (values[Len(values)] - values[1])
                                                  \div Len(values)])
               ELSE model = initial

\* The 12th observation of a name on a learner with memory_size 11: the
\* second recomputation, on a history that has wrapped, has moved the mean
\* away from the first value.
C24_Witness ==
    /\ call.op = "learn"
    /\ learner.memory_size = 11
    /\ Len(Observations(call.name)) = 12
    /\ Len(learner.parameter_history[call.name]) = 11
    /\ learner.variation_model[call.name].mean # Observations(call.name)[1]
    /\ learner.variation_model[call.name] # call.before.variation_model[call.name]

\* C25 as stated: every noise call records base_amplitude as an observation
\* of 'amplitude' in the generator's learner, with or without a context, and
\* records context.speed under 'speed' only when a context is supplied.
C25_AsClaimed ==
    call.op = "noise" =>
        LET H == generator.learner.parameter_history
            B == call.before.learner.parameter_history
            amplitudes == IF "amplitude" \in DOMAIN B THEN B["amplitude"] ELSE <<>>
            speeds     == IF "speed" \in DOMAIN B THEN B["speed"] ELSE <<>>
        IN  /\ "amplitude" \in DOMAIN H
            /\ H["amplitude"] = Append(amplitudes, call.base_amplitude)
            /\ IF call.context = <<>>
               THEN ("speed" \in DOMAIN H) = ("speed" \in DOMAIN B)
                    /\ ("speed" \in DOMAIN H => H["speed"] = speeds)
               ELSE "speed" \in DOMAIN H
                    /\ H["speed"] = Append(speeds, call.context[1].speed * 1000)

\* C25, amended: a noise call records base_amplitude under 'amplitude' and
\* context.speed under 'speed' only when a context is supplied; a call with
\* no context records nothing in the generator's learner.
C25_LearnsWithContext ==
    call.op = "noise" =>
        LET H == generator.learner.parameter_history
            B == call.before.learner.parameter_history
            amplitudes == IF "amplitude" \in DOMAIN B THEN B["amplitude"] ELSE <<>>
            speeds     == IF "speed" \in DOMAIN B THEN B["speed"] ELSE <<>>
        IN  IF call.context = <<>>
            THEN generator.learner = call.before.learner
            ELSE /\ DOMAIN H = {"amplitude", "speed"}
                 /\ H["amplitude"] = Append(amplitudes, call.base_amplitude)
                 /\ H["speed"] = Append(speeds, call.context[1].speed * 1000)

\* A call with a context on a generator that had already learned from one:
\* both histories grew from one to two observations.
C25_Witness ==
    /\ call.op = "noise"
    /\ call.context # <<>>
    /\ call.context[1].speed > 0
    /\ "amplitude" \in DOMAIN call.before.learner.parameter_history
    /\ Len(generator.learner.parameter_history["amplitude"]) = 2
    /\ Len(generator.learner.parameter_history["speed"]) = 2

\* C26: predict_parameter with a context multiplies the drawn value by 1.1
\* when speed > 60, by 0.9 when speed < 20 and by neither otherwise (speed
\* exactly 60 or 20 included), then by 1 + track_wear x 0.3 and by
\* 1 + vehicle_age x 0.2, which are always applied; with no context it
\* applies no multiplier.
C26_SpeedMultiplier ==
    (call.op = "predict" /\ call.name \in DOMAIN call.before.variation_model) =>
        LET model == call.before.variation_model[call.name]
            drawn == model.mean + (model.std * call.z) \div 10 + model.trend
        IN  IF call.context = <<>>
            THEN call.result = Min(Max(drawn, 0), 2000)
            ELSE LET c     == call.context[1]
                     sped  == IF c.speed > 60 THEN (drawn * 11) \div 10
                              ELSE IF c.speed < 20 THEN (drawn * 9) \div 10
                              ELSE drawn
                     worn  == (sped * (1000 + c.track_wear * 3)) \div 1000
                     aged  == (worn * (1000 + c.vehicle_age * 2)) \div 1000
                 IN  call.result = Min(Max(aged, 0), 2000)

\* A prediction at speed exactly 60 on worn track that was not clipped: the
\* drawn value times the track_wear and vehicle_age factors alone.
C26_Witness ==
    /\ call.op = "predict"
    /\ call.name \in DOMAIN call.before.variation_model
    /\ call.context # <<>>
    /\ call.context[1].speed = 60
    /\ call.context[1].track_wear = 80
    /\ call.result > 0 /\ call.result < 2000
    /\ LET model == call.before.variation_model[call.name]
           drawn == model.mean + (model.std * call.z) \div 10 + model.trend
           age   == 1000 + call.context[1].vehicle_age * 2
       IN  /\ call.result = (((drawn * 1240) \div 1000) * age) \div 1000
           /\ call.result #
                  (((((drawn * 11) \div 10) * 1240) \div 1000) * age) \div 1000

\* C27: every amplitude get_harmonic_intelligence returns lies in [0, 1],
\* whatever the context and the earlier calls; and the call adds exactly one
\* observation to the learner under the key of (sound_type, i) for each
\* harmonic i it returns, and touches no other key.
C27_AmplitudesAndKeys ==
    call.op = "harmonics" =>
        LET n      == Len(call.result)
            H      == modulator.learner.parameter_history
            B      == call.before.learner.parameter_history
            key(i) == <<call.sound_type, "harmonic", i, "amp">>
            keys   == {key(i) : i \in 1..n}
        IN  /\ \A i \in 1..n :
                   call.result[i][2] >= 0 /\ call.result[i][2] <= 1000
            /\ DOMAIN H = DOMAIN B \cup keys
            /\ \A k \in DOMAIN B \ keys : H[k] = B[k]
            /\ \A i \in 1..n :
                   LET old == IF key(i) \in DOMAIN B THEN B[key(i)] ELSE <<>>
                   IN  /\ Len(H[key(i)]) = Len(old) + 1
                       /\ SubSeq(H[key(i)], 1, Len(old)) = old

\* A second call for a sound type, now with seven harmonics and with
\* track_wear and passenger_load out of range: harmonics 1 to 5 hold two
\* observations, 6 and 7 one, and the seventh amplitude, negative before
\* the clip, is 0.
C27_Witness ==
    /\ call.op = "harmonics"
    /\ call.ctx.passenger_load > 100
    /\ call.ctx.track_wear < 0
    /\ Len(call.result) = 7
    /\ call.result[7][2] = 0
    /\ call.result[1][2] > 0
    /\ LET H == modulator.learner.parameter_history
       IN  /\ Len(H[<<call.sound_type, "harmonic", 1, "amp">>]) = 2
           /\ Len(H[<<call.sound_type, "harmonic", 5, "amp">>]) = 2
           /\ Len(H[<<call.sound_type, "harmonic", 7, "amp">>]) = 1

\* C28: predict_parameter leaves the learner as it was, parameter_history
\* and variation_model alike; predicting a name that was never learned
\* creates no history and no model for it, so that every later prediction of
\* the name still returns 1.0.
C28_PredictReadsOnly ==
    call.op = "predict" =>
        /\ learner.parameter_history = call.before.parameter_history
        /\ learner.variation_model = call.before.variation_model
        /\ call.name \notin DOMAIN observed =>
               /\ call.name \notin DOMAIN learner.parameter_history
               /\ call.name \notin DOMAIN learner.variation_model
               /\ call.result = 1000

\* A name never learned is predicted again, on a learner trained on
\* another name, and with a context: the result is 1.0 and the learner has
\* no entry for the name.
C28_Witness ==
    /\ call.op = "predict"
    /\ call.name = "never"
    /\ "never" \in call.predicted
    /\ call.context # <<>>
    /\ call.result = 1000
    /\ "x" \in DOMAIN learner.variation_model
    /\ "never" \notin DOMAIN learner.variation_model

\* C29: predict_event never modifies base_probabilities: after any calls
\* they are curve 0.15, rail_switch 0.12, rail_defect 0.10, wheel_squeal
\* 0.08, brake_squeal 0.06, and a call's adjustments start from these (at
\* speed > 50 the curve trial is adjusted to 0.15 x 1.5 every time).
C29_BaseProbabilitiesKept ==
    /\ base_probabilities =
           << <<"curve", 150000>>, <<"rail_switch", 120000>>,
              <<"rail_defect", 100000>>, <<"wheel_squeal", 80000>>,
              <<"brake_squeal", 60000>> >>
    /\ (call.op = "predict_event" /\ call.ctx.speed > 50) =>
           call.trials[1].adjusted = 225000

\* A second call in a row at speed > 50 on worn track: its curve trial was
\* adjusted from 0.15 again, and its rail_defect trial from 0.10.
C29_Witness ==
    /\ call.op = "predict_event"
    /\ call.after_fast
    /\ call.ctx.speed > 50
    /\ call.ctx.track_wear = 80
    /\ Len(call.trials) >= 3
    /\ call.trials[1].adjusted = 225000
    /\ call.trials[3].adjusted = 180000

\* C30 as stated: continuous_journey_segment(duration) terminates for every
\* finite duration and every outcome of the draws and predictions: no
\* iteration when duration <= 0; otherwise every iteration strictly
\* increases elapsed (all but the last by a rumble of 10 s or more, which
\* bounds their number), elapsed never exceeds duration, and the loop exits,
\* with elapsed equal to duration.
C30_AsClaimed ==
    /\ journey.pc \in {"idle", "loop", "returned"}
    /\ journey.pc \in {"loop", "returned"} =>
           /\ journey.duration <= 0 =>
                  journey.pc = "returned" /\ journey.iterations = 0
           /\ journey.iterations > 0 =>
                  /\ journey.elapsed > journey.previous
                  /\ journey.elapsed <= journey.duration
                  /\ (journey.iterations - 1) * 10000 < journey.elapsed
           /\ journey.pc = "loop" => journey.elapsed < journey.duration
           /\ (journey.pc = "returned" /\ journey.duration > 0) =>
                  journey.elapsed = journey.duration

=============================================================================
